---- MODULE Spec2Model ----
(***************************************************************************)
(* A model of python/fastpitch1_1/fastpitch.py (xVA-Synth, FastPitch 1.1): *)
(* the length regulator, the interval averager, the training forward pass  *)
(* with its duration-sum assertion, and the inference pipeline             *)
(* infer_advanced / infer_using_vals with its splice of existing values.   *)
(*                                                                         *)
(* Conventions.  Python's None is the empty tuple <<>> and a present value *)
(* x is <<x>>.  Indices that the code reports (start_index, end_index,     *)
(* frame numbers) keep Python's 0-based values; TLA+ sequences are 1-based *)
(* so element i of a Python list is s[i + 1].  Durations are fixed-point   *)
(* numbers in units of 1/DurUnit frame and a pace is the pair <<n, d>>     *)
(* standing for n/d.                                                       *)
(***************************************************************************)
EXTENDS Integers, Sequences, FiniteSets, TLC

VARIABLES
    \* regulate_len called on its own
    rl_pc, rl_durations, rl_enc_out, rl_pace, rl_mel_max_len, rl_enc_rep, rl_dec_lens,
    \* average_pitch called on its own
    ap_pc, ap_pitch, ap_durs, ap_avg,
    \* infer_advanced: its arguments and the plugin lists
    adv_inputs, adv_pitch_data, adv_old_sequence, adv_pace, plugins,
    \* control: the statement reached, and whether it runs inside the try of line 423
    pc, in_try,
    \* infer_using_vals: its parameters
    dur_pred_existing, pitch_pred_existing, energy_pred_existing, old_sequence, new_sequence,
    \* infer_using_vals: its locals
    start_index, end_index, dur_pred, pitch_pred, energy_pred, enc_out, energy_basis,
    \* what infer_advanced returned, and the plugin events run so far
    ret, hook_log,
    \* forward (training) and binarize_attention: the batch, the soft attention
    \* and what the pass has computed
    fw_pc, fw_attn, fw_in_lens, fw_out_lens, fw_attn_hard, fw_dur_tgt, fw_pred, fw_out

rl_vars == <<rl_pc, rl_durations, rl_enc_out, rl_pace, rl_mel_max_len, rl_enc_rep, rl_dec_lens>>
ap_vars == <<ap_pc, ap_pitch, ap_durs, ap_avg>>
adv_vars == <<adv_inputs, adv_pitch_data, adv_old_sequence, adv_pace, plugins>>
arg_vars == <<dur_pred_existing, pitch_pred_existing, energy_pred_existing, old_sequence,
              new_sequence>>
loc_vars == <<start_index, end_index, dur_pred, pitch_pred, energy_pred, enc_out, energy_basis>>
inf_vars == <<adv_vars, pc, in_try, arg_vars, loc_vars, ret, hook_log>>
fw_vars == <<fw_pc, fw_attn, fw_in_lens, fw_out_lens, fw_attn_hard, fw_dur_tgt, fw_pred, fw_out>>
vars == <<rl_vars, ap_vars, inf_vars, fw_vars>>

----------------------------------------------------------------------------
(* Values shared by the components *)

None == <<>>
Some(x) == <<x>>
IsNone(o) == o = <<>>
Get(o) == o[1]

Min(a, b) == IF a <= b THEN a ELSE b
Max(a, b) == IF a >= b THEN a ELSE b
Abs(a) == IF a >= 0 THEN a ELSE -a

RECURSIVE SumSeq(_)
SumSeq(s) == IF s = <<>> THEN 0 ELSE s[1] + SumSeq(Tail(s))

RECURSIVE MaxSeq(_)
MaxSeq(s) == IF Len(s) = 1 THEN s[1] ELSE Max(s[1], MaxSeq(Tail(s)))

\* torch.cumsum along the last axis
CumSum(s) == [i \in 1..Len(s) |-> SumSeq(SubSeq(s, 1, i))]

\* F.pad(x, (1, 0)): one zero in front
PadLeft(s) == <<0>> \o s

\* x.long() of the quotient n/d, d > 0: truncation toward zero
TruncDiv(n, d) == IF n >= 0 THEN n \div d ELSE -((-n) \div d)

\* Durations are held in units of 1/DurUnit frame (0.25 is one unit)
DurUnit == 4

----------------------------------------------------------------------------
(* regulate_len *)

\* reps = (durations.float() / pace + 0.5).long()
Reps(durations, pace) ==
    [b \in DOMAIN durations |->
        [j \in DOMAIN durations[b] |->
            TruncDiv(2 * durations[b][j] * pace[2] + DurUnit * pace[1],
                     2 * DurUnit * pace[1])]]

\* the selection matrix with an inclusive upper end: an off-by-one at the boundary
MultInclusiveEnd(reps_cumsum, t, j) ==
    reps_cumsum[j] <= t /\ reps_cumsum[j + 1] >= t

\* mult[b, t, j] = (reps_cumsum[:, :, :-1] <= range_) & (reps_cumsum[:, :, 1:] > range_)
Mult(reps_cumsum, t, j) ==
    reps_cumsum[j] <= t /\ reps_cumsum[j + 1] > t

\* torch.matmul(mult, enc_out) needs as many columns of mult as rows of enc
MatmulOK(durations, enc) ==
    \A b \in DOMAIN durations : Len(durations[b]) = Len(enc[b])

RegulateLen(durations, enc, pace, mel_max_len) ==
    LET reps == Reps(durations, pace)
        dec_lens == [b \in DOMAIN reps |-> SumSeq(reps[b])]
        max_len == MaxSeq(dec_lens)
        reps_cumsum == [b \in DOMAIN reps |-> CumSum(PadLeft(reps[b]))]
        enc_rep == [b \in DOMAIN reps |->
                       [t \in 1..max_len |->
                           SumSeq([j \in DOMAIN reps[b] |->
                                      IF Mult(reps_cumsum[b], t - 1, j)
                                      THEN enc[b][j] ELSE 0])]]
    IN  IF IsNone(mel_max_len)
        THEN [enc_rep |-> enc_rep, dec_lens |-> dec_lens, reps |-> reps]
        ELSE [enc_rep |-> [b \in DOMAIN reps |->
                              SubSeq(enc_rep[b], 1, Min(max_len, Get(mel_max_len)))],
              dec_lens |-> [b \in DOMAIN reps |-> Min(dec_lens[b], Get(mel_max_len))],
              reps |-> reps]

----------------------------------------------------------------------------
(* average_pitch, for one batch item and one channel: the batch and the    *)
(* channel axes are only expanded over (lines 72-73), every (batch,        *)
(* channel) row is averaged with the same gather indices.  A rational      *)
(* result n/d is the pair <<n, d>>.                                        *)

\* torch.gather(src, 2, idx) raises when an index is outside src
GatherOK(pitch, durs) ==
    \A j \in DOMAIN durs : SumSeq(SubSeq(durs, 1, j)) <= Len(pitch)

\* the zero-count branch dropped: the quotient is taken whatever the count
PitchAvgUnguarded(pitch_sums, pitch_nelems) ==
    <<pitch_sums, pitch_nelems>>

\* torch.where(pitch_nelems == 0.0, pitch_nelems, pitch_sums / pitch_nelems)
PitchAvg(pitch_sums, pitch_nelems) ==
    IF pitch_nelems = 0 THEN <<0, 1>> ELSE <<pitch_sums, pitch_nelems>>

\* the plain mean over the interval: zero-valued frames counted too
AveragePitchPlainMean(pitch, durs) ==
    LET durs_cums_ends == CumSum(durs)
        durs_cums_starts == PadLeft(SubSeq(durs_cums_ends, 1, Len(durs) - 1))
        pitch_cums == PadLeft(CumSum(pitch))
    IN  [j \in DOMAIN durs |->
            PitchAvg(pitch_cums[durs_cums_ends[j] + 1] - pitch_cums[durs_cums_starts[j] + 1],
                     durs[j])]

AveragePitch(pitch, durs) ==
    LET durs_cums_ends == CumSum(durs)
        durs_cums_starts == PadLeft(SubSeq(durs_cums_ends, 1, Len(durs) - 1))
        pitch_nonzero_cums ==
            PadLeft(CumSum([i \in DOMAIN pitch |-> IF pitch[i] # 0 THEN 1 ELSE 0]))
        pitch_cums == PadLeft(CumSum(pitch))
        pitch_sums == [j \in DOMAIN durs |->
            pitch_cums[durs_cums_ends[j] + 1] - pitch_cums[durs_cums_starts[j] + 1]]
        pitch_nelems == [j \in DOMAIN durs |->
            pitch_nonzero_cums[durs_cums_ends[j] + 1]
                - pitch_nonzero_cums[durs_cums_starts[j] + 1]]
    IN  [j \in DOMAIN durs |-> PitchAvg(pitch_sums[j], pitch_nelems[j])]

----------------------------------------------------------------------------
(* infer_using_vals: the pure parts.  An element of a duration, pitch or   *)
(* energy array is a record [src, at, v]: v is the number, src and at say  *)
(* where it came from ("pred": predicted for position at; "existing":      *)
(* element at of the supplied array; "hook": written by a plugin).         *)

MaxDurationDefault == 75
MinDuration == 1
PitchClampMin == -3
PitchClampMax == 3

Reverse(s) == [i \in 1..Len(s) |-> s[Len(s) + 1 - i]]

MinOf(S) == CHOOSE x \in S : \A y \in S : x <= y

\* the values of i at which the loops of lines 268-275 and 284-291 break
BreakAt(old_np, new_np) ==
    {i \in 0..(Len(old_np) - 1) :
        IF i < Len(new_np) THEN old_np[i + 1] # new_np[i + 1] ELSE TRUE}

\* start_index = i instead of i - 1: the first changed position taken for unchanged
StartIndexOffByOne(old_np, new_np) ==
    IF old_np[1] = new_np[1]
    THEN IF BreakAt(old_np, new_np) = {}
         THEN Some(Len(old_np) - 1)
         ELSE Some(MinOf(BreakAt(old_np, new_np)))
    ELSE None

\* lines 266-277: the index of the last position of the common prefix
StartIndex(old_np, new_np) ==
    IF old_np[1] = new_np[1]
    THEN IF BreakAt(old_np, new_np) = {}
         THEN Some(Len(old_np) - 1)
         ELSE Some(MinOf(BreakAt(old_np, new_np)) - 1)
    ELSE None

\* the scan from the back without the test of line 283
EndIndexUnguarded(old_np, new_np) ==
    LET old_r == Reverse(old_np)
        new_r == Reverse(new_np)
    IN  IF BreakAt(old_r, new_r) = {}
        THEN None
        ELSE Some(Len(old_np) - 1 - MinOf(BreakAt(old_r, new_r)) + 1)

\* lines 280-291: the index in old of the first position of the common suffix
EndIndex(old_np, new_np) ==
    LET old_r == Reverse(old_np)
        new_r == Reverse(new_np)
    IN  IF old_r[1] = new_r[1]
        THEN IF BreakAt(old_r, new_r) = {}
             THEN None
             ELSE Some(Len(old_np) - 1 - MinOf(BreakAt(old_r, new_r)) + 1)
        ELSE None

\* range(start_index+1) and range(len(old_sequence_np)-end_index)
PrefixCount(start) == IF IsNone(start) THEN 0 ELSE Max(0, Get(start) + 1)
SuffixCount(end, old_len) == IF IsNone(end) THEN 0 ELSE Max(0, old_len - Get(end))

\* lines 325-333 and 366-371 raise IndexError when an index is outside either list
SpliceOK(arr, existing, start, end, old_len) ==
    /\ PrefixCount(start) <= Min(Len(arr), Len(existing))
    /\ SuffixCount(end, old_len) <= Min(Len(arr), Len(existing))

\* the loop over the suffix left out
SplicePrefixOnly(arr, existing, start, end, old_len) ==
    [p \in 1..Len(arr) |-> IF p <= PrefixCount(start) THEN existing[p] ELSE arr[p]]

\* lines 325-333 and 366-371: arr[i] = existing[i] over the prefix, then
\* arr[-i-1] = existing[-i-1] over the suffix
Splice(arr, existing, start, end, old_len) ==
    [p \in 1..Len(arr) |->
        IF p > Len(arr) - SuffixCount(end, old_len)
        THEN existing[Len(existing) - (Len(arr) - p)]
        ELSE IF p <= PrefixCount(start) THEN existing[p] ELSE arr[p]]

\* a + b on the token axis: equal lengths, or one of them 1 (broadcast)
BroadcastOK(n, m) == n = m \/ n = 1 \/ m = 1

\* The predictors are fixed functions of the encoder output, that is of the
\* input tokens: what exp(log_dur_pred) - 1 and the pitch predictor give at a
\* position is read off the token there, the position and the length
RawDurVals == <<-2, 1, 2, 6, MaxDurationDefault * DurUnit + DurUnit>>
RawPitchVals == <<-5, 0, 4>>
SymbolCode(c) ==
    CASE c = "a" -> 0 [] c = "b" -> 1 [] c = "c" -> 2 [] c = "d" -> 3 [] OTHER -> 4
PredictorCell(tokens, p, n) == ((SymbolCode(tokens[p]) + 2 * p + Len(tokens)) % n) + 1

Clamp(x, lo, hi) == Max(lo, Min(x, hi))

\* lines 303-305: clamp(exp(log_dur_pred) - 1, 0, max_duration), then clamp(min=0.25)
ClampDuration(raw, max_duration) ==
    Max(MinDuration, Clamp(raw, 0, max_duration * DurUnit))

\* lines 302-305
DurationPredicted(tokens, max_duration) ==
    [p \in 1..Len(tokens) |->
        [src |-> "pred", at |-> p - 1,
         v |-> ClampDuration(RawDurVals[PredictorCell(tokens, p, Len(RawDurVals))],
                             max_duration)]]

\* lines 308-309
PitchPredicted(tokens) ==
    [p \in 1..Len(tokens) |->
        [src |-> "pred", at |-> p - 1,
         v |-> Clamp(RawPitchVals[PredictorCell(tokens, p, Len(RawPitchVals))],
                     PitchClampMin, PitchClampMax)]]

\* lines 339 and 359: one value per position of the features it is given
EnergyPredicted(n) == [p \in 1..n |-> [src |-> "pred", at |-> p - 1, v |-> 0]]

\* a list of n numbers handed in as side-data, as the tensor of lines 414-419
ExistingArr(n) == [q \in 1..n |-> [src |-> "existing", at |-> q - 1, v |-> 2 * DurUnit]]

\* an array a "pre_energy" plugin wrote
PreEnergyHookArr(n) == [p \in 1..n |-> [src |-> "hook_pre_energy", at |-> p - 1, v |-> 5 * DurUnit]]

\* an array a "mid" plugin wrote
HookArr(n) == [p \in 1..n |-> [src |-> "hook", at |-> p - 1, v |-> 3 * DurUnit]]

Vals(arr) == [p \in DOMAIN arr |-> arr[p].v]

\* A component of pitch_data: None, a list of n numbers, or a non-empty list
\* that torch.tensor or view((1, shape[0])) rejects (ragged, nested, not numbers)
NoneComp == [kind |-> "none", n |-> 0]
BadComp == [kind |-> "bad", n |-> 1]
ArrComp(n) == [kind |-> "arr", n |-> n]

\* x is not None and len(x)
Truthy(c) == c.kind # "none" /\ c.n > 0

----------------------------------------------------------------------------
(* Monotonic alignment search.  python/fastpitch1_1/alignment.py (mas_width1,*)
(* b_mas) is not among the source files; Mas and BMas follow the written   *)
(* contract: dynamic programming over the cells reachable from (frame 1,   *)
(* token 1) by staying on a token or moving to the next, every token       *)
(* visited, and a backtrack from the last cell.  A matrix is a sequence of *)
(* rows, a row a sequence of scores; a higher score is a likelier cell.    *)

NumRows(m) == Len(m)
NumCols(m) == Len(m[1])

\* cell (i, j) lies on some path from (1, 1) to (T, L) that skips no token
MasFeasible(m, i, j) ==
    /\ 1 <= j /\ j <= i
    /\ NumCols(m) - j <= NumRows(m) - i

\* the best cumulative score of a path reaching (i, j)
RECURSIVE MasScore(_, _, _)
MasScore(m, i, j) ==
    IF i = 1 THEN m[1][1]
    ELSE IF ~MasFeasible(m, i - 1, j - 1) THEN m[i][j] + MasScore(m, i - 1, j)
    ELSE IF ~MasFeasible(m, i - 1, j) THEN m[i][j] + MasScore(m, i - 1, j - 1)
    ELSE m[i][j] + Max(MasScore(m, i - 1, j - 1), MasScore(m, i - 1, j))

\* the token of frame i - 1 on the best path through (i, j)
MasPrev(m, i, j) ==
    IF ~MasFeasible(m, i - 1, j - 1) THEN j
    ELSE IF ~MasFeasible(m, i - 1, j) THEN j - 1
    ELSE IF MasScore(m, i - 1, j - 1) >= MasScore(m, i - 1, j) THEN j - 1 ELSE j

\* the token of frame i on the best path, backtracked from (T, L)
RECURSIVE MasToken(_, _)
MasToken(m, i) ==
    IF i = NumRows(m) THEN NumCols(m) ELSE MasPrev(m, i + 1, MasToken(m, i + 1))

\* mas_width1 on one sample's slice
Mas(m) ==
    [i \in 1..NumRows(m) |-> [j \in 1..NumCols(m) |-> IF MasToken(m, i) = j THEN 1 ELSE 0]]

\* attn[b, 0, :out_len, :in_len]: a slice stops at the end of the axis
Slice(m, out_len, in_len) ==
    [i \in 1..Min(out_len, NumRows(m)) |-> [j \in 1..Min(in_len, NumCols(m)) |-> m[i][j]]]

\* attn_out[b, 0, :out_len, :in_len] = hard on a matrix of zeros shaped like m
Pack(hard, m) ==
    [i \in 1..NumRows(m) |->
        [j \in 1..NumCols(m) |->
            IF i <= NumRows(hard) /\ j <= NumCols(hard) THEN hard[i][j] ELSE 0]]

\* b_mas: every sample searched on its own slice and packed into the padded batch
BMas(attn, in_lens, out_lens) ==
    [b \in DOMAIN attn |-> Pack(Mas(Slice(attn[b], out_lens[b], in_lens[b])), attn[b])]

----------------------------------------------------------------------------
(* binarize_attention, binarize_attention_parallel and forward *)

\* the loop index left out of the lengths: every sample cut at the first one's
BinarizeAttentionFirstLens(attn, in_lens, out_lens) ==
    [ind \in DOMAIN attn |->
        Pack(Mas(Slice(attn[ind], out_lens[1], in_lens[1])), attn[ind])]

\* lines 157-165
BinarizeAttention(attn, in_lens, out_lens) ==
    [ind \in DOMAIN attn |->
        Pack(Mas(Slice(attn[ind], out_lens[ind], in_lens[ind])), attn[ind])]

\* lines 174-177
BinarizeAttentionParallel(attn, in_lens, out_lens) == BMas(attn, in_lens, out_lens)

\* line 209: attn_hard.sum(2)[:, 0, :], the column sums over the frame axis
AttnHardDur(attn_hard) ==
    [b \in DOMAIN attn_hard |->
        [j \in 1..NumCols(attn_hard[b]) |->
            SumSeq([i \in 1..NumRows(attn_hard[b]) |-> attn_hard[b][i][j]])]]

\* the assertion dropped
DurSumsSkipped(dur_tgt, mel_lens) == TRUE

\* line 212: torch.all(torch.eq(dur_tgt.sum(dim=1), mel_lens))
DurSumsMatch(dur_tgt, mel_lens) ==
    \A b \in DOMAIN dur_tgt : SumSeq(dur_tgt[b]) = mel_lens[b]

----------------------------------------------------------------------------
(* Bounds and input sets *)

RlMaxTokens == 2
ApMaxFrames == 3
ApMaxTokens == 2

RlBatch == {1, 2}
\* 0, 0.25, 0.75, 2 and 3 frames
RlDurVals == {0, 1, 3, 8, 12}
RlPaces == {<<1, 2>>, <<1, 1>>, <<2, 1>>, <<100, 1>>}
RlCaps == {None, Some(2)}
\* every token of the batch carries its own non-zero feature value (D = 1)
FeatureTag(b, j) == 10 * b + j

MaxSeqLen == 3
Symbols == {"a", "b"}
SeqsUpTo(n) == UNION {[1..m -> Symbols] : m \in 1..n}
\* the edit of one token in a four-token line
ExampleOld == <<"a", "b", "c", "d">>
ExampleNew == <<"a", "x", "c", "d">>
InferPaces == {<<1, 1>>, <<1, 2>>}
PluginLists == [mid : BOOLEAN, pre_energy : BOOLEAN]

\* pitch_data = (pitch, duration, energy): lists of n, n and m numbers
ValidData(n, m) == <<ArrComp(n), ArrComp(n), ArrComp(m)>>
\* the three lists of one length, or the energy list one element short
ValidDataUpTo(k) ==
    UNION {{ValidData(n, m) : m \in {n} \cup ({n - 1} \ {0})} : n \in 1..k}
\* pitch_data with one component missing, empty or unusable, or with a
\* component too few or too many
FaultyData ==
    {[ValidData(1, 1) EXCEPT ![i] = c] : i \in 1..3, c \in {NoneComp, ArrComp(0), BadComp}}
        \cup {<<ArrComp(1), ArrComp(1)>>, <<ArrComp(1), ArrComp(1), ArrComp(1), ArrComp(1)>>}

\* the padded sizes of a training batch: mel_tgt.size(2) frames, and tokens
FwMaxMelLen == 2
FwMaxTextLen == 2
FwBatch == {1, 2}
\* the soft attention of a sample: every frame scores one token 2, the others 1
FwAttns ==
    {[i \in 1..FwMaxMelLen |-> [j \in 1..FwMaxTextLen |-> IF j = c[i] THEN 2 ELSE 1]] :
        c \in [1..FwMaxMelLen -> 1..FwMaxTextLen]}
\* (mel_len, input_len) of a sample: at least as many frames as tokens; a
\* mel_len beyond the padded size is a batch whose lengths do not fit its mel
FwLens ==
    {<<o, i>> \in (1..(FwMaxMelLen + 1)) \X (1..FwMaxTextLen) : i <= Min(o, FwMaxMelLen)}
\* the per-frame pitch of a sample: frame 0 unvoiced
FwPitchDense == [t \in 1..FwMaxMelLen |-> t - 1]

ApPitchVals == {-1, 0, 1, 2}
ApExamplePitch == <<1, 1, 1, 0, 5>>
ApExampleDurs == <<3, 0, 2>>

----------------------------------------------------------------------------
(* regulate_len and average_pitch as calls of their own *)

RlIdle ==
    /\ rl_pc = "idle" /\ rl_durations = <<>> /\ rl_enc_out = <<>> /\ rl_pace = <<1, 1>>
    /\ rl_mel_max_len = None /\ rl_enc_rep = <<>> /\ rl_dec_lens = <<>>

ApIdle ==
    /\ ap_pc = "idle" /\ ap_pitch = <<>> /\ ap_durs = <<>> /\ ap_avg = <<>>

InfIdle ==
    /\ adv_inputs = <<>> /\ adv_pitch_data = None /\ adv_old_sequence = None
    /\ adv_pace = <<1, 1>> /\ plugins = [mid |-> FALSE, pre_energy |-> FALSE]
    /\ pc = "idle" /\ in_try = FALSE
    /\ dur_pred_existing = None /\ pitch_pred_existing = None /\ energy_pred_existing = None
    /\ old_sequence = None /\ new_sequence = None
    /\ start_index = None /\ end_index = None /\ dur_pred = None /\ pitch_pred = None
    /\ energy_pred = None /\ enc_out = None /\ energy_basis = None
    /\ ret = None /\ hook_log = <<>>

FwIdle ==
    /\ fw_pc = "idle" /\ fw_attn = <<>> /\ fw_in_lens = <<>> /\ fw_out_lens = <<>>
    /\ fw_attn_hard = None /\ fw_dur_tgt = None /\ fw_pred = None /\ fw_out = None

InitRegulate ==
    /\ rl_pc = "call"
    /\ \E n \in 1..RlMaxTokens :
          /\ rl_durations \in [RlBatch -> [1..n -> RlDurVals]]
          /\ rl_enc_out = [b \in RlBatch |-> [j \in 1..n |-> FeatureTag(b, j)]]
    /\ rl_pace \in RlPaces
    /\ rl_mel_max_len \in RlCaps
    /\ rl_enc_rep = <<>>
    /\ rl_dec_lens = <<>>
    /\ ApIdle
    /\ InfIdle
    /\ FwIdle

RegulateLenCall ==
    /\ rl_pc = "call"
    /\ LET r == RegulateLen(rl_durations, rl_enc_out, rl_pace, rl_mel_max_len)
       IN  /\ rl_enc_rep' = r.enc_rep
           /\ rl_dec_lens' = r.dec_lens
    /\ rl_pc' = "done"
    /\ UNCHANGED <<rl_durations, rl_enc_out, rl_pace, rl_mel_max_len, ap_vars, inf_vars, fw_vars>>

NextRegulate == RegulateLenCall

SpecRegulate == InitRegulate /\ [][NextRegulate]_vars

InitAverage ==
    /\ ap_pc = "call"
    /\ \/ \E f \in 1..ApMaxFrames, n \in 1..ApMaxTokens :
             /\ ap_pitch \in [1..f -> ApPitchVals]
             /\ ap_durs \in [1..n -> 0..f]
       \/ /\ ap_pitch = ApExamplePitch
          /\ ap_durs = ApExampleDurs
    /\ ap_avg = <<>>
    /\ RlIdle
    /\ InfIdle
    /\ FwIdle

AveragePitchCall ==
    /\ ap_pc = "call"
    /\ IF GatherOK(ap_pitch, ap_durs)
       THEN /\ ap_avg' = AveragePitch(ap_pitch, ap_durs)
            /\ ap_pc' = "done"
       ELSE /\ ap_avg' = <<>>
            /\ ap_pc' = "raised"
    /\ UNCHANGED <<ap_pitch, ap_durs, rl_vars, inf_vars, fw_vars>>

NextAverage == AveragePitchCall

SpecAverage == InitAverage /\ [][NextAverage]_vars

----------------------------------------------------------------------------
(* infer_advanced and infer_using_vals *)

InitInfer ==
    /\ adv_pace \in InferPaces
    /\ plugins \in PluginLists
    /\ \/ /\ adv_inputs \in SeqsUpTo(MaxSeqLen)
          /\ \/ /\ adv_pitch_data \in {None} \cup {Some(d) : d \in FaultyData}
                /\ adv_old_sequence = None
             \/ /\ adv_pitch_data \in {Some(d) : d \in ValidDataUpTo(MaxSeqLen)}
                /\ adv_old_sequence \in {None} \cup {Some(o) : o \in SeqsUpTo(MaxSeqLen)}
       \/ /\ adv_inputs = ExampleNew
          /\ adv_pitch_data = Some(ValidData(Len(ExampleOld), Len(ExampleOld)))
          /\ adv_old_sequence = Some(ExampleOld)
    /\ pc = "entry" /\ in_try = FALSE
    /\ dur_pred_existing = None /\ pitch_pred_existing = None /\ energy_pred_existing = None
    /\ old_sequence = None /\ new_sequence = None
    /\ start_index = None /\ end_index = None /\ dur_pred = None /\ pitch_pred = None
    /\ energy_pred = None /\ enc_out = None /\ energy_basis = None
    /\ ret = None /\ hook_log = <<>>
    /\ RlIdle
    /\ ApIdle
    /\ FwIdle

\* line 412 raises IndexError when pitch_data has no element i and all before it pass
CondRaises(pd) ==
    \E i \in 1..3 : i > Len(pd) /\ \A k \in 1..(i - 1) : Truthy(pd[k])

\* line 412
CondTrue(pd) == Len(pd) >= 3 /\ \A i \in 1..3 : Truthy(pd[i])

\* lines 413-419, outside the try: the unpacking and the three conversions
ConvertRaises(pd) == Len(pd) # 3 \/ \E i \in 1..3 : pd[i].kind = "bad"

\* a call of infer_using_vals: the parameters bound, the locals of lines 254-255
\* set, enc_out the encoder's output for the input tokens
CallInferUsingVals(d, p, e, o, n, try) ==
    /\ dur_pred_existing' = d /\ pitch_pred_existing' = p /\ energy_pred_existing' = e
    /\ old_sequence' = o /\ new_sequence' = n
    /\ start_index' = None /\ end_index' = None
    /\ dur_pred' = None /\ pitch_pred' = None /\ energy_pred' = None /\ energy_basis' = None
    /\ enc_out' = Some([len |-> Len(adv_inputs), pitch |-> None, energy |-> None])
    /\ in_try' = try
    /\ pc' = "bounds"

\* an exception: caught at line 425 when raised inside the try, else it leaves
\* infer_advanced
Raise ==
    /\ pc' = IF in_try THEN "except" ELSE "raised"
    /\ UNCHANGED <<in_try, arg_vars, loc_vars, ret, hook_log>>

\* lines 399-432 up to the call of infer_using_vals
AdvancedEntry ==
    /\ pc = "entry"
    /\ IF IsNone(adv_pitch_data)
          \/ (~CondRaises(Get(adv_pitch_data)) /\ ~CondTrue(Get(adv_pitch_data)))
       THEN /\ CallInferUsingVals(None, None, None, None, None, FALSE)
            /\ UNCHANGED <<ret, hook_log>>
       ELSE IF CondRaises(Get(adv_pitch_data)) \/ ConvertRaises(Get(adv_pitch_data))
       THEN /\ pc' = "raised"
            /\ UNCHANGED <<in_try, arg_vars, loc_vars, ret, hook_log>>
       ELSE /\ CallInferUsingVals(Some(ExistingArr(Get(adv_pitch_data)[2].n)),
                                  Some(ExistingArr(Get(adv_pitch_data)[1].n)),
                                  Some(ExistingArr(Get(adv_pitch_data)[3].n)),
                                  adv_old_sequence, Some(adv_inputs), TRUE)
            /\ UNCHANGED <<ret, hook_log>>
    /\ UNCHANGED <<adv_vars, rl_vars, ap_vars, fw_vars>>

\* lines 425-428: the exception is logged and the pipeline run again on its own values
AdvancedExcept ==
    /\ pc = "except"
    /\ CallInferUsingVals(None, None, None, None, None, FALSE)
    /\ UNCHANGED <<adv_vars, ret, hook_log, rl_vars, ap_vars, fw_vars>>

\* lines 257-294
SpliceBounds ==
    /\ pc = "bounds"
    /\ IF IsNone(old_sequence)
       THEN /\ pc' = "predict"
            /\ UNCHANGED <<start_index, end_index>>
       ELSE IF IsNone(new_sequence)
       THEN /\ pc' = IF in_try THEN "except" ELSE "raised"
            /\ UNCHANGED <<start_index, end_index>>
       ELSE /\ start_index' = StartIndex(Get(old_sequence), Get(new_sequence))
            /\ end_index' = EndIndex(Get(old_sequence), Get(new_sequence))
            /\ pc' = "predict"
    /\ UNCHANGED <<adv_vars, in_try, arg_vars, dur_pred, pitch_pred, energy_pred, enc_out,
                   energy_basis, ret, hook_log, rl_vars, ap_vars, fw_vars>>

\* lines 296-314
Predict ==
    /\ pc = "predict"
    /\ IF IsNone(dur_pred_existing) \/ IsNone(pitch_pred_existing) \/ ~IsNone(old_sequence)
       THEN /\ dur_pred' = Some(DurationPredicted(adv_inputs, MaxDurationDefault))
            /\ pitch_pred' = Some(PitchPredicted(adv_inputs))
            /\ UNCHANGED energy_pred
       ELSE /\ dur_pred' = dur_pred_existing
            /\ pitch_pred' = pitch_pred_existing
            /\ energy_pred' = energy_pred_existing
    /\ pc' = "splice"
    /\ UNCHANGED <<adv_vars, in_try, arg_vars, start_index, end_index, enc_out, energy_basis,
                   ret, hook_log, rl_vars, ap_vars, fw_vars>>

\* lines 316-339
SpliceDurPitch ==
    /\ pc = "splice"
    /\ IF IsNone(start_index) /\ IsNone(end_index)
       THEN /\ pc' = "mid"
            /\ UNCHANGED <<in_try, arg_vars, loc_vars, ret, hook_log>>
       ELSE IF \/ IsNone(dur_pred_existing) \/ IsNone(pitch_pred_existing)
               \/ ~SpliceOK(Get(dur_pred), Get(dur_pred_existing), start_index, end_index,
                            Len(Get(old_sequence)))
               \/ ~SpliceOK(Get(pitch_pred), Get(pitch_pred_existing), start_index, end_index,
                            Len(Get(old_sequence)))
       THEN Raise
       ELSE /\ dur_pred' = Some(Splice(Get(dur_pred), Get(dur_pred_existing), start_index,
                                       end_index, Len(Get(old_sequence))))
            /\ pitch_pred' = Some(Splice(Get(pitch_pred), Get(pitch_pred_existing), start_index,
                                         end_index, Len(Get(old_sequence))))
            /\ energy_pred' = Some(EnergyPredicted(Get(enc_out).len))
            /\ energy_basis' = pitch_pred'
            /\ pc' = "mid"
            /\ UNCHANGED <<in_try, arg_vars, start_index, end_index, enc_out, ret, hook_log>>
    /\ UNCHANGED <<adv_vars, rl_vars, ap_vars, fw_vars>>

\* lines 342-350: the "mid" plugins get duration and pitch and may rewrite either
HookMid ==
    /\ pc = "mid"
    /\ IF plugins.mid
       THEN \E wrote \in SUBSET {"duration", "pitch"} :
               /\ dur_pred' = IF "duration" \in wrote
                              THEN Some(HookArr(Len(Get(dur_pred)))) ELSE dur_pred
               /\ pitch_pred' = IF "pitch" \in wrote
                                THEN Some(HookArr(Len(Get(pitch_pred)))) ELSE pitch_pred
               /\ hook_log' = Append(hook_log, [event |-> "mid", wrote |-> wrote])
       ELSE UNCHANGED <<dur_pred, pitch_pred, hook_log>>
    /\ pc' = "pitch_emb"
    /\ UNCHANGED <<adv_vars, in_try, arg_vars, start_index, end_index, energy_pred, enc_out,
                   energy_basis, ret, rl_vars, ap_vars, fw_vars>>

\* lines 352-355
EmbedPitch ==
    /\ pc = "pitch_emb"
    /\ IF BroadcastOK(Get(enc_out).len, Len(Get(pitch_pred)))
       THEN /\ enc_out' = Some([Get(enc_out) EXCEPT
                                   !.len = Max(Get(enc_out).len, Len(Get(pitch_pred))),
                                   !.pitch = pitch_pred])
            /\ pc' = "energy"
            /\ UNCHANGED <<in_try, arg_vars, start_index, end_index, dur_pred, pitch_pred,
                           energy_pred, energy_basis, ret, hook_log>>
       ELSE Raise
    /\ UNCHANGED <<adv_vars, rl_vars, ap_vars, fw_vars>>

\* lines 357-372
Energy ==
    /\ pc = "energy"
    /\ IF IsNone(energy_pred_existing)
       THEN /\ energy_pred' = Some(EnergyPredicted(Get(enc_out).len))
            /\ energy_basis' = Get(enc_out).pitch
            /\ pc' = "pre_energy"
            /\ UNCHANGED <<in_try, arg_vars, start_index, end_index, dur_pred, pitch_pred,
                           enc_out, ret, hook_log>>
       ELSE IF IsNone(start_index) /\ IsNone(end_index)
       THEN /\ pc' = "pre_energy"
            /\ UNCHANGED <<in_try, arg_vars, loc_vars, ret, hook_log>>
       ELSE IF \/ IsNone(energy_pred)
               \/ ~SpliceOK(Get(energy_pred), Get(energy_pred_existing), start_index,
                            end_index, Len(Get(old_sequence)))
       THEN Raise
       ELSE /\ energy_pred' = Some(Splice(Get(energy_pred), Get(energy_pred_existing),
                                          start_index, end_index, Len(Get(old_sequence))))
            /\ pc' = "pre_energy"
            /\ UNCHANGED <<in_try, arg_vars, start_index, end_index, dur_pred, pitch_pred,
                           enc_out, energy_basis, ret, hook_log>>
    /\ UNCHANGED <<adv_vars, rl_vars, ap_vars, fw_vars>>

\* lines 378 and 383-385: plugin_data["duration"] is dur_pred.cpu().detach().numpy()
\* and is not read back.  A plugin that assigns a new array to the entry leaves
\* dur_pred as it was; one that writes into the array changes dur_pred when
\* the array shares dur_pred's memory (self.device is the CPU) and not when
\* .cpu() copied it (a CUDA device)
DurAfterPreEnergy(dur, wrote, in_place) ==
    IF "duration" \in wrote /\ in_place THEN Some(PreEnergyHookArr(Len(Get(dur)))) ELSE dur

\* lines 375-385: the "pre_energy" plugins get duration, pitch and energy; only
\* the energy is read back
HookPreEnergy ==
    /\ pc = "pre_energy"
    /\ IF ~plugins.pre_energy
       THEN /\ pc' = "finish"
            /\ UNCHANGED <<in_try, arg_vars, loc_vars, ret, hook_log>>
       ELSE IF IsNone(energy_pred)
       THEN Raise
       ELSE \E wrote \in SUBSET {"duration", "energy"} :
            \E in_place \in IF "duration" \in wrote THEN BOOLEAN ELSE {FALSE} :
               /\ energy_pred' = IF "energy" \in wrote
                                 THEN Some(PreEnergyHookArr(Len(Get(energy_pred))))
                                 ELSE energy_pred
               /\ dur_pred' = DurAfterPreEnergy(dur_pred, wrote, in_place)
               /\ hook_log' = Append(hook_log, [event |-> "pre_energy", wrote |-> wrote])
               /\ pc' = "finish"
               /\ UNCHANGED <<in_try, arg_vars, start_index, end_index, pitch_pred,
                              enc_out, energy_basis, ret>>
    /\ UNCHANGED <<adv_vars, rl_vars, ap_vars, fw_vars>>

\* lines 387-397: the energy embedded, the length regulator run (its frames go
\* to the decoder), and the values returned
Finish ==
    /\ pc = "finish"
    /\ IF \/ IsNone(energy_pred)
          \/ ~BroadcastOK(Get(enc_out).len, Len(Get(energy_pred)))
          \/ Len(Get(dur_pred)) # Max(Get(enc_out).len, Len(Get(energy_pred)))
       THEN Raise
       ELSE /\ enc_out' = Some([Get(enc_out) EXCEPT
                                   !.len = Max(Get(enc_out).len, Len(Get(energy_pred))),
                                   !.energy = energy_pred])
            /\ ret' = Some([dec_lens |-> SumSeq(Reps(<<Vals(Get(dur_pred))>>, adv_pace)[1]),
                            reps |-> Reps(<<Vals(Get(dur_pred))>>, adv_pace)[1],
                            dur_pred |-> Get(dur_pred),
                            pitch_pred |-> Get(pitch_pred),
                            energy_pred |-> Get(energy_pred),
                            start_index |-> IF IsNone(start_index) THEN -1 ELSE Get(start_index),
                            end_index |-> IF IsNone(end_index) THEN -1 ELSE Get(end_index)])
            /\ pc' = "returned"
            /\ UNCHANGED <<in_try, arg_vars, start_index, end_index, dur_pred, pitch_pred,
                           energy_pred, energy_basis, hook_log>>
    /\ UNCHANGED <<adv_vars, rl_vars, ap_vars, fw_vars>>

NextInfer ==
    \/ AdvancedEntry
    \/ AdvancedExcept
    \/ SpliceBounds
    \/ Predict
    \/ SpliceDurPitch
    \/ HookMid
    \/ EmbedPitch
    \/ Energy
    \/ HookPreEnergy
    \/ Finish

SpecInfer == InitInfer /\ [][NextInfer]_vars

----------------------------------------------------------------------------
(* The training forward pass, and binarize_attention called on the batch *)

InitForward ==
    /\ fw_pc = "start"
    /\ fw_attn \in [FwBatch -> FwAttns]
    /\ \E lens \in [FwBatch -> FwLens] :
          /\ fw_out_lens = [b \in FwBatch |-> lens[b][1]]
          /\ fw_in_lens = [b \in FwBatch |-> lens[b][2]]
    /\ fw_attn_hard = None /\ fw_dur_tgt = None /\ fw_pred = None /\ fw_out = None
    /\ RlIdle
    /\ ApIdle
    /\ InfIdle

\* binarize_attention(attn, in_lens, out_lens), lines 150-165
BinarizeAttentionCall ==
    /\ fw_pc = "start"
    /\ fw_attn_hard' = Some(BinarizeAttention(fw_attn, fw_in_lens, fw_out_lens))
    /\ fw_pc' = "binarized"
    /\ UNCHANGED <<fw_attn, fw_in_lens, fw_out_lens, fw_dur_tgt, fw_pred, fw_out,
                   rl_vars, ap_vars, inf_vars>>

\* forward, lines 179-210: the soft attention binarized, the target durations
ForwardAlign ==
    /\ fw_pc = "start"
    /\ fw_attn_hard' = Some(BinarizeAttentionParallel(fw_attn, fw_in_lens, fw_out_lens))
    /\ fw_dur_tgt' = Some(AttnHardDur(Get(fw_attn_hard')))
    /\ fw_pc' = "assert"
    /\ UNCHANGED <<fw_attn, fw_in_lens, fw_out_lens, fw_pred, fw_out, rl_vars, ap_vars, inf_vars>>

\* forward, line 212
ForwardAssert ==
    /\ fw_pc = "assert"
    /\ fw_pc' = IF DurSumsMatch(Get(fw_dur_tgt), fw_out_lens) THEN "predict" ELSE "aborted"
    /\ UNCHANGED <<fw_attn, fw_in_lens, fw_out_lens, fw_attn_hard, fw_dur_tgt, fw_pred, fw_out,
                   rl_vars, ap_vars, inf_vars>>

\* forward, lines 214-243: the predictions, and the per-token pitch target of
\* line 222 and energy average of line 235 (before the log of line 236)
ForwardPredict ==
    /\ fw_pc = "predict"
    /\ fw_pred' = Some([pitch_tgt |-> [b \in FwBatch |->
                                          AveragePitch(FwPitchDense, Get(fw_dur_tgt)[b])],
                        energy_avg |-> [b \in FwBatch |->
                                           AveragePitch(FwPitchDense, Get(fw_dur_tgt)[b])]])
    /\ fw_pc' = "regulate"
    /\ UNCHANGED <<fw_attn, fw_in_lens, fw_out_lens, fw_attn_hard, fw_dur_tgt, fw_out,
                   rl_vars, ap_vars, inf_vars>>

\* forward, lines 245-251: regulate_len(dur_tgt, enc_out, pace, mel_max_len)
ForwardRegulate ==
    /\ fw_pc = "regulate"
    /\ fw_out' = Some(RegulateLen([b \in FwBatch |->
                                      [j \in 1..FwMaxTextLen |-> Get(fw_dur_tgt)[b][j] * DurUnit]],
                                  [b \in FwBatch |-> [j \in 1..FwMaxTextLen |-> FeatureTag(b, j)]],
                                  <<1, 1>>, Some(FwMaxMelLen)))
    /\ fw_pc' = "returned"
    /\ UNCHANGED <<fw_attn, fw_in_lens, fw_out_lens, fw_attn_hard, fw_dur_tgt, fw_pred,
                   rl_vars, ap_vars, inf_vars>>

NextForward ==
    \/ BinarizeAttentionCall
    \/ ForwardAlign
    \/ ForwardAssert
    \/ ForwardPredict
    \/ ForwardRegulate

SpecForward == InitForward /\ [][NextForward]_vars

----------------------------------------------------------------------------
(* Claims about the inference pipeline *)

NoPlugins == ~plugins.mid /\ ~plugins.pre_energy

\* infer_using_vals returned from the call of line 424, made with the side-data
ReturnedWithVals == pc = "returned" /\ in_try

\* position p (0-based) of the new sequence lies in the unchanged prefix
InUnchangedPrefix(old, new, p) ==
    /\ p < Len(old)
    /\ \A k \in 0..p : old[k + 1] = new[k + 1]

\* position p lies in the unchanged suffix, the sequences aligned at their ends
InUnchangedSuffix(old, new, p) ==
    /\ Len(new) - 1 - p < Len(old)
    /\ \A e \in 0..(Len(new) - 1 - p) : old[Len(old) - e] = new[Len(new) - e]

\* element e at position p of a returned array is the prediction for p, or an
\* existing value that an unchanged prefix or suffix position may carry
SplicedRight(e, p, existing_len) ==
    LET old == Get(adv_old_sequence) IN
    /\ e.src \in {"pred", "existing"}
    /\ e.src = "pred" => e.at = p
    /\ e.src = "existing" =>
          \/ InUnchangedPrefix(old, adv_inputs, p) /\ e.at = p
          \/ InUnchangedSuffix(old, adv_inputs, p)
                /\ existing_len - e.at = Len(adv_inputs) - p

\* C1: with existing data and an old sequence supplied, a returned duration,
\* pitch or energy at position p is an existing value only where p lies in the
\* unchanged prefix or the unchanged suffix; every other position carries the
\* fresh prediction for that position.
C1_SpliceOnlyUnchanged ==
    (pc = "returned" /\ ~IsNone(adv_pitch_data) /\ ~IsNone(adv_old_sequence) /\ NoPlugins) =>
        \A f \in {"dur_pred", "pitch_pred", "energy_pred"} :
            LET arr == IF f = "dur_pred" THEN Get(ret).dur_pred
                       ELSE IF f = "pitch_pred" THEN Get(ret).pitch_pred
                       ELSE Get(ret).energy_pred
                existing_len == IF f = "dur_pred" THEN Get(adv_pitch_data)[2].n
                                ELSE IF f = "pitch_pred" THEN Get(adv_pitch_data)[1].n
                                ELSE Get(adv_pitch_data)[3].n
            IN  /\ Len(arr) = Len(adv_inputs)
                /\ \A p \in 0..(Len(arr) - 1) : SplicedRight(arr[p + 1], p, existing_len)

\* sequences of different lengths: a suffix value taken from another index of the
\* existing data, beside a fresh one
C1_Witness ==
    /\ ReturnedWithVals /\ NoPlugins /\ ~IsNone(adv_old_sequence)
    /\ Len(Get(adv_old_sequence)) # Len(adv_inputs)
    /\ \E p \in DOMAIN Get(ret).dur_pred :
          /\ Get(ret).dur_pred[p].src = "existing" /\ Get(ret).dur_pred[p].at # p - 1
          /\ Get(ret).energy_pred[p].src = "existing"
    /\ \E p \in DOMAIN Get(ret).dur_pred : Get(ret).dur_pred[p].src = "pred"

IsExample ==
    /\ ReturnedWithVals /\ NoPlugins
    /\ adv_inputs = ExampleNew /\ adv_old_sequence = Some(ExampleOld)

\* where the returned duration, pitch and energy at position p come from
SrcAt(p) ==
    <<Get(ret).dur_pred[p + 1].src, Get(ret).pitch_pred[p + 1].src,
      Get(ret).energy_pred[p + 1].src>>

\* C2 as stated: old [a,b,c,d], new [a,x,c,d] give start boundary 0 and end
\* boundary 3; positions 0 and 3 keep the existing values, 1 and 2 are fresh
C2_Original ==
    IsExample =>
        /\ Get(ret).start_index = 0 /\ Get(ret).end_index = 3
        /\ \A p \in {0, 3} : SrcAt(p) = <<"existing", "existing", "existing">>
        /\ \A p \in {1, 2} : SrcAt(p) = <<"pred", "pred", "pred">>

\* C2 amended: old [a,b,c,d], new [a,x,c,d] give start boundary 0 and end
\* boundary 2 (the unchanged suffix is c,d); positions 0, 2 and 3 keep the
\* existing values and only position 1 is fresh.
C2_Amended ==
    IsExample =>
        /\ Get(ret).start_index = 0 /\ Get(ret).end_index = 2
        /\ \A p \in {0, 2, 3} :
              /\ SrcAt(p) = <<"existing", "existing", "existing">>
              /\ Get(ret).dur_pred[p + 1].at = p
        /\ SrcAt(1) = <<"pred", "pred", "pred">>

C2_Witness == IsExample /\ Get(ret).dec_lens > 0

\* the scan of lines 266-291 has run on an old and a new sequence
BoundsDetected == pc \notin {"idle", "entry", "bounds"} /\ ~IsNone(old_sequence)

\* C3 as stated: sequences identical at position 0 leave start_index unset
\* (reported as -1), sequences identical at the last position leave end_index
\* unset (reported as -1)
C3_Original ==
    BoundsDetected =>
        LET old == Get(old_sequence)
            new == Get(new_sequence)
        IN  /\ old[1] = new[1] =>
                  /\ IsNone(start_index)
                  /\ pc = "returned" => Get(ret).start_index = -1
            /\ old[Len(old)] = new[Len(new)] =>
                  /\ IsNone(end_index)
                  /\ pc = "returned" => Get(ret).end_index = -1

\* C3 amended: the sequences are compared from the front and from the back;
\* if they differ at position 0 no front boundary is set (start_index stays
\* unset, reported as -1), and if they differ at the last position no back
\* boundary is set (end_index stays unset, reported as -1).
C3_Amended ==
    BoundsDetected =>
        LET old == Get(old_sequence)
            new == Get(new_sequence)
        IN  /\ old[1] # new[1] =>
                  /\ IsNone(start_index)
                  /\ pc = "returned" => Get(ret).start_index = -1
            /\ old[Len(old)] # new[Len(new)] =>
                  /\ IsNone(end_index)
                  /\ pc = "returned" => Get(ret).end_index = -1

\* a changed first token before an unchanged end: -1 reported beside a back boundary
C3_Witness ==
    /\ ReturnedWithVals /\ ~IsNone(old_sequence)
    /\ Get(old_sequence)[1] # Get(new_sequence)[1]
    /\ Get(ret).start_index = -1
    /\ Get(ret).end_index >= 1

SelfPredicted(arr) == \A p \in DOMAIN arr : arr[p].src # "existing"

\* C4: whatever side-data is supplied, infer_advanced never lets a failure
\* out; when the side-data cannot be used it returns the run made on its own
\* predictions, with no existing value and both boundaries -1.
C4_NeverPropagates ==
    ~IsNone(adv_pitch_data) =>
        /\ pc # "raised"
        /\ (pc = "returned" /\ ~in_try) =>
              /\ SelfPredicted(Get(ret).dur_pred)
              /\ SelfPredicted(Get(ret).pitch_pred)
              /\ SelfPredicted(Get(ret).energy_pred)
              /\ Get(ret).start_index = -1 /\ Get(ret).end_index = -1

\* C10: at the default pace and with no plugin, every self-predicted duration
\* returned lies between the minimum and max_duration, and its token gets at
\* least one frame from the length regulator.
C10_NoZeroFrameToken ==
    (pc = "returned" /\ adv_pace = <<1, 1>> /\ NoPlugins) =>
        \A p \in DOMAIN Get(ret).dur_pred :
            Get(ret).dur_pred[p].src = "pred" =>
                /\ Get(ret).dur_pred[p].v <= MaxDurationDefault * DurUnit
                /\ Get(ret).dur_pred[p].v >= MinDuration
                /\ Get(ret).reps[p] >= 1

\* the last invocation of the plugins of an event: the one of the run that returned
LastHook(event) ==
    LET at == {i \in DOMAIN hook_log : hook_log[i].event = event}
    IN  hook_log[CHOOSE i \in at : \A k \in at : k <= i]

HookRan(event) == \E i \in DOMAIN hook_log : hook_log[i].event = event

AllFrom(arr, src) == \A p \in DOMAIN arr : arr[p].src = src

\* a duration written at the first checkpoint drives the length regulator, a
\* pitch written there is the pitch embedded and added
MidRewriteUsed ==
    (pc = "returned" /\ HookRan("mid")) =>
        /\ ("duration" \in LastHook("mid").wrote
               /\ ~(HookRan("pre_energy") /\ "duration" \in LastHook("pre_energy").wrote))
              => /\ AllFrom(Get(ret).dur_pred, "hook")
                 /\ Get(ret).reps = Reps(<<Vals(HookArr(Len(Get(ret).dur_pred)))>>, adv_pace)[1]
        /\ ("pitch" \in LastHook("mid").wrote)
              => /\ ~IsNone(Get(enc_out).pitch)
                 /\ AllFrom(Get(Get(enc_out).pitch), "hook")

\* an energy written at the second checkpoint is the energy embedded and added
PreEnergyEnergyUsed ==
    (pc = "returned" /\ HookRan("pre_energy")) =>
        ("energy" \in LastHook("pre_energy").wrote
            => /\ ~IsNone(Get(enc_out).energy)
               /\ AllFrom(Get(Get(enc_out).energy), "hook_pre_energy"))

\* a duration written at the second checkpoint drives the length regulator
PreEnergyDurationUsed ==
    (pc = "returned" /\ HookRan("pre_energy")) =>
        ("duration" \in LastHook("pre_energy").wrote
            => /\ AllFrom(Get(ret).dur_pred, "hook_pre_energy")
               /\ Get(ret).reps = Reps(<<Vals(PreEnergyHookArr(Len(Get(ret).dur_pred)))>>, adv_pace)[1])

\* C11: every array a hook rewrites at a checkpoint is the value the pipeline
\* goes on to use: a duration rewritten at either checkpoint drives the
\* length regulator, a pitch rewritten at the first is the pitch embedded, an
\* energy rewritten at the second is the energy embedded.
C11_HookRewritesUsed ==
    /\ MidRewriteUsed
    /\ PreEnergyEnergyUsed
    /\ PreEnergyDurationUsed

HookCount(event) == Cardinality({i \in DOMAIN hook_log : hook_log[i].event = event})

\* C12: within one infer_advanced call, the fallback path included, the
\* first-checkpoint hook is invoked at most once and the second-checkpoint
\* hook at most once, the first always before the second.
C12_HooksOnceInOrder ==
    pc # "idle" =>
        /\ HookCount("mid") <= 1
        /\ HookCount("pre_energy") <= 1
        /\ \A i, k \in DOMAIN hook_log :
              (hook_log[i].event = "mid" /\ hook_log[k].event = "pre_energy") => i < k
        /\ (HookRan("pre_energy") /\ plugins.mid) => HookRan("mid")

----------------------------------------------------------------------------
(* Claims about the training forward pass and the hard alignment *)

FwWellFormed == \A b \in FwBatch : fw_out_lens[b] <= FwMaxMelLen

FwPastAssert == fw_pc \in {"predict", "regulate", "returned"}

\* C5: in the training forward pass the target durations of every sample sum
\* to that sample's mel length exactly: always for a batch whose lengths fit
\* the padded mel, and in any case once the assertion of line 212 is passed;
\* a mismatch aborts at the assertion, before any prediction or regulation.
C5_DurSumInvariant ==
    /\ (fw_pc # "idle" /\ ~IsNone(fw_dur_tgt) /\ FwWellFormed)
          => \A b \in FwBatch : SumSeq(Get(fw_dur_tgt)[b]) = fw_out_lens[b]
    /\ (FwPastAssert \/ ~IsNone(fw_pred) \/ ~IsNone(fw_out))
          => \A b \in FwBatch : SumSeq(Get(fw_dur_tgt)[b]) = fw_out_lens[b]
    /\ fw_pc = "aborted"
          => /\ \E b \in FwBatch : SumSeq(Get(fw_dur_tgt)[b]) # fw_out_lens[b]
             /\ IsNone(fw_pred) /\ IsNone(fw_out)
    /\ (fw_pc = "assert" /\ \E b \in FwBatch : SumSeq(Get(fw_dur_tgt)[b]) # fw_out_lens[b])
          => ~ENABLED ForwardPredict /\ ~ENABLED ForwardRegulate

\* the forward pass has passed the assertion on a batch of two samples of
\* different mel lengths, one token of which is held for more than one frame
C5_Witness ==
    /\ fw_pc = "regulate"
    /\ fw_out_lens[1] # fw_out_lens[2]
    /\ \E b \in FwBatch : \E j \in 1..FwMaxTextLen : Get(fw_dur_tgt)[b][j] >= 2

\* the column of the 1 in row i of a hard alignment
HardCol(hard, i) == CHOOSE j \in 1..NumCols(hard) : hard[i][j] = 1

\* C6: for valid lengths the hard alignment packed back into the batch, by
\* binarize_attention and by binarize_attention_parallel alike, is binary,
\* has exactly one 1 in each of the sample's out_len rows, at a column that
\* does not decrease with the row, and is zero outside the (out_len, in_len)
\* region; two samples with equal lengths and equal slices get equal results.
C6_HardAlignment ==
    (fw_pc # "idle" /\ ~IsNone(fw_attn_hard)) =>
        LET hard == Get(fw_attn_hard) IN
        /\ \A b \in FwBatch :
              fw_out_lens[b] <= FwMaxMelLen =>
                 /\ NumRows(hard[b]) = FwMaxMelLen /\ NumCols(hard[b]) = FwMaxTextLen
                 /\ \A i \in 1..FwMaxMelLen : \A j \in 1..FwMaxTextLen :
                       /\ hard[b][i][j] \in {0, 1}
                       /\ (i > fw_out_lens[b] \/ j > fw_in_lens[b]) => hard[b][i][j] = 0
                 /\ \A i \in 1..fw_out_lens[b] :
                       Cardinality({j \in 1..FwMaxTextLen : hard[b][i][j] = 1}) = 1
                 /\ \A i \in 1..(fw_out_lens[b] - 1) :
                       HardCol(hard[b], i) <= HardCol(hard[b], i + 1)
        /\ \A b1, b2 \in FwBatch :
              (/\ fw_out_lens[b1] = fw_out_lens[b2]
               /\ fw_in_lens[b1] = fw_in_lens[b2]
               /\ Slice(fw_attn[b1], fw_out_lens[b1], fw_in_lens[b1])
                    = Slice(fw_attn[b2], fw_out_lens[b2], fw_in_lens[b2]))
                 => hard[b1] = hard[b2]

\* binarize_attention has packed a batch of two samples with different
\* lengths, one shorter than the padding in both axes, one moving on to the
\* second token; their attention differs only outside the shorter slice
C6_Witness ==
    /\ fw_pc = "binarized"
    /\ fw_out_lens[1] = FwMaxMelLen /\ fw_in_lens[1] >= 2
    /\ fw_out_lens[2] < FwMaxMelLen /\ fw_in_lens[2] < FwMaxTextLen
    /\ fw_attn[1] # fw_attn[2]
    /\ Get(fw_attn_hard)[1][FwMaxMelLen][fw_in_lens[1]] = 1
    /\ Get(fw_attn_hard)[2][1][1] = 1

----------------------------------------------------------------------------
(* Claims about regulate_len *)

\* the integers nearest to durations / pace (two of them at a tie)
NearestInts(q, pace) ==
    {r \in 0..(q * pace[2] + 1) :
        2 * Abs(r * DurUnit * pace[1] - q * pace[2]) <= DurUnit * pace[1]}

RoundedDurations(b) ==
    {r \in [DOMAIN rl_durations[b] ->
                UNION {NearestInts(rl_durations[b][j], rl_pace) : j \in DOMAIN rl_durations[b]}] :
        \A j \in DOMAIN r : r[j] \in NearestInts(rl_durations[b][j], rl_pace)}

\* the tokens whose interval [start, end) of cumulative rounded durations holds frame t
TokensHolding(r, t) ==
    {j \in DOMAIN r : SumSeq(SubSeq(r, 1, j - 1)) <= t /\ t < SumSeq(SubSeq(r, 1, j))}

\* C7: without a cap, each sample's output length is the sum of its durations
\* divided by the pace and rounded to the nearest integer; every frame below
\* that length carries the features of the one token whose cumulative interval
\* holds it, the frames from that length on are zero; durations [2,3] give 5
\* frames at pace 1 and 3 frames at pace 2, and a sample whose rounded
\* durations are all zero gets 0 frames.
C7_RegulateLen ==
    (rl_pc = "done" /\ IsNone(rl_mel_max_len)) =>
        /\ \A b \in RlBatch :
             \E r \in RoundedDurations(b) :
                /\ rl_dec_lens[b] = SumSeq(r)
                /\ Len(rl_enc_rep[b]) = MaxSeq(rl_dec_lens)
                /\ \A t \in 0..(Len(rl_enc_rep[b]) - 1) :
                      IF t < rl_dec_lens[b]
                      THEN /\ Cardinality(TokensHolding(r, t)) = 1
                           /\ \A j \in TokensHolding(r, t) :
                                 rl_enc_rep[b][t + 1] = rl_enc_out[b][j]
                      ELSE rl_enc_rep[b][t + 1] = 0
                /\ (\A j \in DOMAIN r : r[j] = 0) => rl_dec_lens[b] = 0
        /\ \A b \in RlBatch :
             (rl_durations[b] = <<2 * DurUnit, 3 * DurUnit>>) =>
                /\ rl_pace = <<1, 1>> =>
                      /\ rl_dec_lens[b] = 5
                      /\ SubSeq(rl_enc_rep[b], 1, 5) =
                            <<rl_enc_out[b][1], rl_enc_out[b][1], rl_enc_out[b][2],
                              rl_enc_out[b][2], rl_enc_out[b][2]>>
                /\ rl_pace = <<2, 1>> => rl_dec_lens[b] = 3

\* a batch holding durations [2,3] at pace 2 beside a sample rounded to nothing
C7_Witness ==
    /\ rl_pc = "done" /\ IsNone(rl_mel_max_len)
    /\ rl_durations = <<<<2 * DurUnit, 3 * DurUnit>>, <<0, 1>>>>
    /\ rl_pace = <<2, 1>>
    /\ rl_dec_lens = <<3, 0>>
    /\ rl_enc_rep[2] = <<0, 0, 0>>

----------------------------------------------------------------------------
(* Claims about average_pitch *)

\* the rational a equals n/d
RatEq(a, n, d) == a[2] # 0 /\ a[1] * d = n * a[2]

IntervalOf(j) ==
    (SumSeq(SubSeq(ap_durs, 1, j - 1)) + 1)..SumSeq(SubSeq(ap_durs, 1, j))

\* C8: when the durations sum to the frame count, each token's output is the
\* sum of the signal over its frame interval divided by the number of non-zero
\* frames there, and 0 with a non-zero denominator when there is none.
C8_AveragePitch ==
    (ap_pc # "call" /\ SumSeq(ap_durs) = Len(ap_pitch)) =>
        /\ ap_pc = "done"
        /\ \A j \in DOMAIN ap_durs :
             LET n == Cardinality({t \in IntervalOf(j) : ap_pitch[t] # 0})
                 s == SumSeq([i \in 1..ap_durs[j] |->
                                 ap_pitch[SumSeq(SubSeq(ap_durs, 1, j - 1)) + i]])
             IN  IF n = 0 THEN RatEq(ap_avg[j], 0, 1) ELSE RatEq(ap_avg[j], s, n)

\* a zero-duration token beside a token whose frames are all zero
C8_Witness ==
    /\ ap_pc = "done"
    /\ ap_durs = <<0, 2>>
    /\ ap_pitch = <<0, 0>>
    /\ ap_avg = <<<<0, 1>>, <<0, 1>>>>

\* C9 as stated: signal [1,1,1,0,5] with durations [3,0,2] averages to [1.0, 0.0, 2.5]
C9_Original ==
    (ap_pc = "done" /\ ap_pitch = ApExamplePitch /\ ap_durs = ApExampleDurs) =>
        /\ RatEq(ap_avg[1], 1, 1) /\ RatEq(ap_avg[2], 0, 1) /\ RatEq(ap_avg[3], 5, 2)

\* C9 amended: signal [1,1,1,0,5] with durations [3,0,2] averages to
\* [1.0, 0.0, 5.0]: the zero frame of the last token is left out of the count.
C9_Amended ==
    (ap_pc = "done" /\ ap_pitch = ApExamplePitch /\ ap_durs = ApExampleDurs) =>
        /\ RatEq(ap_avg[1], 1, 1) /\ RatEq(ap_avg[2], 0, 1) /\ RatEq(ap_avg[3], 5, 1)

C9_Witness ==
    /\ ap_pc = "done" /\ ap_pitch = ApExamplePitch /\ ap_durs = ApExampleDurs
    /\ Len(ap_avg) = 3

====
